---- MODULE Spec2Model ----
(***************************************************************************)
(* The broadcast engine of the SA-MP radio server: the circular buffer,    *)
(* the producer thread (broadcaster), the playback commands (/play, /next, *)
(* /list) and the listener sessions (stream.generate).                     *)
(*                                                                         *)
(* The repository holds two variants of the server, src/app.py and         *)
(* src/app_ngrok.py.  The variable `variant' says which one runs; it is    *)
(* chosen at start and never changes.  Where the two files differ the      *)
(* actions branch on it.                                                   *)
(*                                                                         *)
(* Every `with state.lock:' block that contains no suspension is one       *)
(* atomic action guarded by lock = "free".  A holder that keeps the mutex  *)
(* across a suspension (a session of app.py across its yield and sleeps,   *)
(* the /next handler across its call of play_song) is recorded in `lock'.  *)
(***************************************************************************)
EXTENDS Integers, Sequences, FiniteSets, TLC

\* ---------------------------------------------------------------- sizes
\* BUFFER_SIZE and CHUNK_SIZE are the program's sizes scaled down
\* (4 MiB / 5 MiB and 16 KiB in the source); MaxPos caps the write cursor.
BUFFER_SIZE == 3
CHUNK_SIZE == 2
MaxPos == 5

\* Time is counted in ticks of the clock, TicksPerSecond to the second, up to
\* MaxTime.  BYTES_PER_SECOND (FIXED_BITRATE // 8) is scaled down like the
\* sizes; EarlyWake is the 0.005 s app_ngrok.py takes off every pacing sleep.
MaxTime == 8
TicksPerSecond == 2
BYTES_PER_SECOND == 1
EarlyWake == 1

MUSIC_FOLDER == "/musica"

\* The names an .mp3 file of the music folder can have, in sorted order.
Songs == <<"a.mp3", "b.mp3">>

SessionIds == {"s1"}

Variants == {"app", "ngrok"}

VARIABLES
    variant,         \* "app" (src/app.py) or "ngrok" (src/app_ngrok.py)
    \* RadioState
    buffer, position, song_index, playlist, song_map, skip_requested,
    current_song, is_playing, last_song, force_change, active, lock,
    \* broadcaster(): its position and locals (a local the code will not read
    \* again before assigning it is reset to its initial value)
    pcB, files, local_force_change, song_path, chunk,
    \* stream.generate(): one record per listener
    sess,
    \* the last reply of /play/<n> or /next
    resp,
    \* history: the index asked for by the last successful play_song that no
    \* track start has followed yet (-1: none)
    selected,
    \* the clock: timed says whether time is followed at all (when it is not,
    \* now stays 0 and the sleeps take no time); now is time.time();
    \* start_time and byte_counter are the broadcaster's locals of app.py,
    \* the moment the current track started and the bytes it has written
    timed, now, start_time, byte_counter

shared == <<buffer, position, song_index, playlist, song_map, skip_requested,
            current_song, is_playing, last_song, force_change, active, lock>>
producer == <<pcB, files, local_force_change, song_path, chunk>>
pacing == <<timed, now, start_time, byte_counter>>
vars == <<variant, shared, producer, sess, resp, selected, pacing>>

\* ---------------------------------------------------------------- helpers
Range(s) == {s[i] : i \in 1..Len(s)}

\* os.path.join(MUSIC_FOLDER, name) and os.path.basename
PathOf(name) == <<MUSIC_FOLDER, name>>
Basename(path) == path[Len(path)]

\* sorted(glob.glob(os.path.join(MUSIC_FOLDER, '*.mp3'))) when the folder
\* holds the files named in names
Glob(names) == LET present == SelectSeq(Songs, LAMBDA n : n \in names)
               IN  [i \in 1..Len(present) |-> PathOf(present[i])]

\* Every listing a scan of the music folder can return
Listings == {Glob(names) : names \in SUBSET Range(Songs)}

\* {index: os.path.basename(song) for index, song in enumerate(new_playlist)}
SongMapOf(pl) == [i \in 0..(Len(pl) - 1) |-> Basename(pl[i + 1])]

\* A lookup that always falls back to the default.
DictGet_Default(d, k, default) == default

\* dict.get(key, default)
DictGet(d, k, default) == IF k \in DOMAIN d THEN d[k] ELSE default

\* One byte of the stream is named by the logical position (the value of
\* state.position) it is written at; the bytearray starts as zero bytes,
\* which no write has produced.
ZeroByte == -1

\* buf[lo:hi] = data, for a slice as long as data
SliceAssign(buf, lo, hi, data) ==
    [i \in DOMAIN buf |-> IF lo <= i /\ i < hi THEN data[i - lo + 1] ELSE buf[i]]

\* bytes(buf[lo:hi])
Slice(buf, lo, hi) == [i \in 1..(hi - lo) |-> buf[lo + i - 1]]

\* chunk[:n] and chunk[n:]
Take(s, n) == SubSeq(s, 1, n)
Drop(s, n) == SubSeq(s, n + 1, Len(s))

\* A write that does not wrap: the part of data past the physical end is lost.
BufferWrite_NoWrap(buf, wpos, data) ==
    LET pos == wpos % BUFFER_SIZE
        fit == IF pos + Len(data) > BUFFER_SIZE THEN BUFFER_SIZE - pos ELSE Len(data)
    IN  SliceAssign(buf, pos, pos + fit, Take(data, fit))

\* The "Buffering" block of broadcaster: the buffer after writing data at
\* write cursor wpos.
BufferWrite(buf, wpos, data) ==
    LET pos == wpos % BUFFER_SIZE
        end == pos + Len(data)
        part1_size == BUFFER_SIZE - pos
    IN  IF end > BUFFER_SIZE
        THEN SliceAssign(SliceAssign(buf, pos, pos + part1_size, Take(data, part1_size)),
                         0, Len(data) - part1_size, Drop(data, part1_size))
        ELSE SliceAssign(buf, pos, end, data)

\* The read of stream.generate: CHUNK_SIZE bytes from read cursor cpos.
BufferRead(buf, cpos) ==
    LET pos == cpos % BUFFER_SIZE
        end == pos + CHUNK_SIZE
    IN  IF end > BUFFER_SIZE
        THEN Slice(buf, pos, BUFFER_SIZE) \o Slice(buf, 0, end - BUFFER_SIZE)
        ELSE Slice(buf, pos, end)

\* ---------------------------------------------------------------- Init
NoSession == [pc |-> "none", client_pos |-> 0, chunk |-> <<>>,
              first_chunk |-> FALSE, start_pos |-> 0]
NoReply == [op |-> "none", status |-> 0, index |-> -1]

\* The state after RadioState() is constructed, with no listener yet; ids
\* names the listeners that may connect, clocked says whether time is
\* followed.
InitOf(ids, clocked) ==
    /\ variant \in Variants
    /\ buffer = [i \in 0..(BUFFER_SIZE - 1) |-> ZeroByte]
    /\ position = 0
    /\ song_index = 0
    /\ playlist = <<>>
    /\ song_map = SongMapOf(<<>>)
    /\ skip_requested = FALSE
    /\ current_song = ""
    /\ is_playing = FALSE
    /\ last_song = ""
    /\ force_change = FALSE
    /\ active = FALSE
    /\ lock = "free"
    /\ pcB = "boot"
    /\ files = <<>>
    /\ local_force_change = FALSE
    /\ song_path = <<>>
    /\ chunk = <<>>
    /\ sess = [s \in ids |-> NoSession]
    /\ resp = NoReply
    /\ selected = -1
    /\ timed = clocked
    /\ now = 0
    /\ start_time = 0
    /\ byte_counter = 0

InitWith(ids) == InitOf(ids, FALSE)

Init == InitWith(SessionIds)

\* ---------------------------------------------------------------- playlist
\* The index update_playlist leaves.  app_ngrok.py looks the current track up
\* in the playlist it has just assigned; app.py resets an index past the end.
RefreshedIndex(new_playlist, index) ==
    IF variant = "ngrok"
    THEN IF new_playlist # <<>> /\ 0 <= index /\ index < Len(new_playlist)
            /\ new_playlist[index + 1] \notin Range(new_playlist)
         THEN 0 ELSE index
    ELSE IF new_playlist # <<>> /\ index >= Len(new_playlist) THEN 0 ELSE index

\* update_playlist().  In app.py the sort key calls re.split and the module
\* never imports re: for a non-empty listing the sort raises NameError, which
\* the function's own except clause logs, before the lock is taken; only an
\* empty listing reaches the locked block.
update_playlist ==
    \E new_playlist \in Listings :
        IF variant = "app" /\ new_playlist # <<>>
        THEN UNCHANGED <<playlist, song_map, song_index>>
        ELSE /\ lock = "free"
             /\ IF variant = "ngrok" \/ new_playlist # playlist
                THEN /\ playlist' = new_playlist
                     /\ song_map' = SongMapOf(new_playlist)
                     /\ song_index' = RefreshedIndex(new_playlist, song_index)
                ELSE UNCHANGED <<playlist, song_map, song_index>>

\* GET /list: update_playlist(), then a locked read.
ListSongs ==
    /\ pcB # "boot"
    /\ update_playlist
    /\ UNCHANGED <<variant, pacing, buffer, position, skip_requested, current_song,
                   is_playing, last_song, force_change, active, lock,
                   producer, sess, resp, selected>>

\* ---------------------------------------------------------------- commands
\* A range check that accepts one index past the end.
ValidIndex_OffByOne(index, pl) == 0 <= index /\ index <= Len(pl)

\* play_song: 0 <= song_index < len(state.playlist)
ValidIndex(index, pl) == 0 <= index /\ index < Len(pl)

\* The reply of a command: the HTTP status and, for /play, the index
\* play_song returned
Reply(op, status, index) == [op |-> op, status |-> status, index |-> index]

\* A play_song that takes the number for the index.
ZeroBased_Same(song_number) == song_number

\* play_song: song_index = song_number - 1
ZeroBased(song_number) == song_number - 1

\* GET /play/<song_number>: play_song(song_number) and the reply built from
\* its result.
PlaySong(song_number) ==
    LET index == ZeroBased(song_number)
    IN  /\ pcB # "boot"
        /\ lock = "free"
        /\ IF ValidIndex(index, playlist)
           THEN /\ song_index' = index
                /\ skip_requested' = TRUE
                /\ force_change' = TRUE
                /\ last_song' = ""
                /\ resp' = Reply("play", 200, index)
                /\ selected' = index
           ELSE /\ resp' = Reply("play", 400, -1)
                /\ UNCHANGED <<song_index, skip_requested, force_change, last_song,
                               selected>>
        /\ UNCHANGED <<variant, pacing, buffer, position, playlist, song_map,
                       current_song, is_playing, active, lock, producer, sess>>

\* GET /next.  With a non-empty playlist the handler calls play_song while it
\* holds state.lock; play_song waits for the same threading.Lock, which is
\* not reentrant, so the handler stops there with the lock held.
NextSong ==
    /\ pcB # "boot"
    /\ lock = "free"
    /\ IF playlist # <<>>
       THEN /\ lock' = "next"
            /\ UNCHANGED resp
       ELSE /\ resp' = Reply("next", 400, -1)
            /\ UNCHANGED lock
    /\ UNCHANGED <<variant, pacing, buffer, position, song_index, playlist, song_map,
                   skip_requested, current_song, is_playing, last_song, force_change,
                   active, producer, sess, selected>>

\* ---------------------------------------------------------------- producer
\* `while state.active:' at the head of broadcaster's loop
LoopHead == IF active THEN "update" ELSE "stopped"

\* __main__: the first update_playlist(), before the broadcaster thread and
\* the HTTP server start.
Boot ==
    /\ pcB = "boot"
    /\ update_playlist
    /\ pcB' = "start"
    /\ UNCHANGED <<variant, pacing, buffer, position, skip_requested, current_song,
                   is_playing, last_song, force_change, active, lock,
                   files, local_force_change, song_path, chunk, sess, resp, selected>>

\* broadcaster: state.active = True
Start ==
    /\ pcB = "start"
    /\ active' = TRUE
    /\ pcB' = "update"
    /\ UNCHANGED <<variant, pacing, buffer, position, song_index, playlist, song_map,
                   skip_requested, current_song, is_playing, last_song, force_change,
                   lock, files, local_force_change, song_path, chunk, sess, resp,
                   selected>>

\* broadcaster: update_playlist() at the top of each pass
Refresh ==
    /\ pcB = "update"
    /\ update_playlist
    /\ pcB' = "files"
    /\ UNCHANGED <<variant, pacing, buffer, position, skip_requested, current_song,
                   is_playing, last_song, force_change, active, lock,
                   files, local_force_change, song_path, chunk, sess, resp, selected>>

\* A producer that does not test for an empty playlist.
HasFiles_Always(f) == TRUE

\* `if not files:' is false
HasFiles(f) == f # <<>>

\* broadcaster: files = state.playlist; if not files: sleep and retry
TakeFiles ==
    /\ pcB = "files"
    /\ files' = playlist
    /\ pcB' = IF HasFiles(playlist) THEN "force" ELSE "await"
    /\ UNCHANGED <<variant, pacing, shared, local_force_change, song_path, chunk,
                   sess, resp, selected>>

\* broadcaster: time.sleep(5); continue
Await ==
    /\ pcB = "await"
    /\ pcB' = LoopHead
    /\ UNCHANGED <<variant, pacing, shared, files, local_force_change, song_path,
                   chunk, sess, resp, selected>>

\* broadcaster, first locked block: read and clear state.force_change
\* (app_ngrok.py also clears last_song when the change was forced)
ForceChange ==
    /\ pcB = "force"
    /\ lock = "free"
    /\ local_force_change' = force_change
    /\ force_change' = FALSE
    /\ last_song' = IF variant = "ngrok" /\ force_change THEN "" ELSE last_song
    /\ pcB' = "select"
    /\ UNCHANGED <<variant, pacing, buffer, position, song_index, playlist, song_map,
                   skip_requested, current_song, is_playing, active, lock,
                   files, song_path, chunk, sess, resp, selected>>

\* A transition that leaves the index where it is.
NextIndex_Stay(index, n) == index

\* (state.song_index + 1) % len(files)
NextIndex(index, n) == (index + 1) % n

\* The index the second locked block uses: app.py resets one past the end of
\* files, app_ngrok.py uses it as it is.
SelectIndex == IF variant = "app" /\ song_index >= Len(files) THEN 0 ELSE song_index

\* The repeat guard: song_name == state.last_song and not force_change
RepeatGuard(song_name) == song_name = last_song /\ ~local_force_change

\* broadcaster, second locked block: pick the track.  files[state.song_index]
\* raises IndexError for an index past the end; app_ngrok.py has no handler
\* around it, so the broadcaster thread ends there.
SelectTrack ==
    /\ pcB = "select"
    /\ lock = "free"
    /\ IF SelectIndex >= Len(files)
       THEN /\ pcB' = "crashed"
            /\ UNCHANGED <<song_index, song_map, skip_requested, current_song,
                           is_playing, last_song, song_path, selected, files>>
       ELSE LET path == files[SelectIndex + 1]
                song_name == IF variant = "app" THEN Basename(path)
                             ELSE DictGet(song_map, song_index, Basename(path))
                map == IF variant = "app"
                       THEN [k \in DOMAIN song_map \cup {SelectIndex} |->
                               IF k = SelectIndex THEN song_name ELSE song_map[k]]
                       ELSE song_map
            IN  /\ song_map' = map
                /\ IF RepeatGuard(song_name)
                   THEN /\ song_index' = NextIndex(SelectIndex, Len(files))
                        /\ pcB' = LoopHead
                        /\ files' = <<>>
                        /\ UNCHANGED <<skip_requested, current_song, is_playing,
                                       last_song, song_path, selected>>
                   ELSE /\ song_index' = SelectIndex
                        /\ skip_requested' = FALSE
                        /\ current_song' = song_name
                        /\ is_playing' = TRUE
                        /\ last_song' = song_name
                        /\ song_path' = path
                        /\ selected' = -1
                        /\ pcB' = "open"
                        /\ UNCHANGED files
    /\ local_force_change' = FALSE
    /\ chunk' = <<>>
    /\ UNCHANGED <<variant, pacing, buffer, position, playlist, force_change, active,
                   lock, sess, resp>>

\* broadcaster: the track is opened for streaming, and the track's clock
\* starts: byte_counter = 0, start_time = time.time() (app_ngrok.py keeps
\* neither; there they only record what the track has written since when).  app.py first tests
\* os.path.exists(song_path) and gives a missing track up in a locked block;
\* app_ngrok.py goes straight to get_audio_chunks(song_path).
OpenTrack ==
    /\ pcB = "open"
    /\ \E exists \in BOOLEAN :
         IF variant = "ngrok" \/ exists
         THEN /\ pcB' = "next_chunk"
              /\ byte_counter' = 0
              /\ start_time' = now
              /\ UNCHANGED <<is_playing, song_index, song_path, files>>
         ELSE /\ lock = "free"
              /\ is_playing' = FALSE
              /\ song_index' = NextIndex(song_index, Len(files))
              /\ song_path' = <<>>
              /\ files' = <<>>
              /\ pcB' = LoopHead
              /\ UNCHANGED <<byte_counter, start_time>>
    /\ UNCHANGED <<variant, timed, now, buffer, position, playlist, song_map,
                   skip_requested, current_song, last_song, force_change, active, lock,
                   local_force_change, chunk, sess, resp, selected>>

\* The bytes f.read(CHUNK_SIZE) returns: n bytes of the track
FileChunk(path, n) == [i \in 1..n |-> Basename(path)]

\* max(0, x)
Max0(x) == IF x > 0 THEN x ELSE 0

\* The time, in ticks, that n bytes last at the byte rate:
\* n / BYTES_PER_SECOND seconds
Expected(n) == (n * TicksPerSecond) \div BYTES_PER_SECOND

\* The pacing sleep after a chunk has been written.  app.py:
\* max(0, byte_counter / BYTES_PER_SECOND - (time.time() - start_time));
\* app_ngrok.py: max(0, len(chunk) / BYTES_PER_SECOND - 0.005).
SleepTime ==
    IF variant = "app"
    THEN Max0(Expected(byte_counter) - (now - start_time))
    ELSE Max0(Expected(Len(chunk)) - EarlyWake)

\* A chunk loop that tests state.skip_requested only before the track.
ChunkGate_NoSkipCheck(act) == IF act THEN "write" ELSE "stopped"

\* Where a chunk that was read goes: `if not state.active: return', else on
\* to the skip check.
ChunkGate(act) == IF act THEN "chk_skip" ELSE "stopped"

\* A get_audio_chunks without its try/except.
ReadErrorCaught_No == FALSE

\* get_audio_chunks wraps open() and f.read() in try/except Exception.
ReadErrorCaught == TRUE

\* for chunk in get_audio_chunks(song_path): the pacing sleep that ends the
\* previous pass (it follows a write), the next f.read(CHUNK_SIZE), and `if not state.active:
\* return'.  The read returns a chunk, or nothing at the end of the file, or
\* it raises (a file that cannot be opened, an I/O error): then the except
\* clause of get_audio_chunks logs and the generator ends.  A short chunk is
\* the last one of its file.  After the loop `chunk' is still the last chunk
\* the loop handed out.
ReadChunk ==
    /\ pcB = "next_chunk"
    /\ now' = IF timed /\ chunk # <<>> THEN now + SleepTime ELSE now
    /\ now' <= MaxTime
    /\ \/ \E n \in 0..CHUNK_SIZE :
            /\ (chunk # <<>> /\ Len(chunk) < CHUNK_SIZE) => n = 0
            /\ chunk' = FileChunk(song_path, n)
            /\ pcB' = IF n = 0 THEN "advance" ELSE ChunkGate(active)
       \/ /\ pcB' = IF ReadErrorCaught THEN "read_error" ELSE "crashed"
          /\ UNCHANGED chunk
    /\ UNCHANGED <<variant, timed, start_time, byte_counter, shared, files,
                   local_force_change, song_path, sess, resp, selected>>

\* broadcaster: with state.lock: if state.skip_requested: clear it and break
CheckSkip ==
    /\ pcB = "chk_skip"
    /\ lock = "free"
    /\ IF skip_requested
       THEN /\ skip_requested' = FALSE
            /\ pcB' = "advance"
       ELSE /\ pcB' = "write"
            /\ UNCHANGED skip_requested
    /\ UNCHANGED <<variant, pacing, buffer, position, song_index, playlist, song_map,
                   current_song, is_playing, last_song, force_change, active, lock,
                   files, local_force_change, song_path, chunk, sess, resp, selected>>

\* The bytes of data as they lie in the buffer once written at wpos: each
\* carries the logical position it is written to.
Stamped(data, wpos) == [i \in 1..Len(data) |-> wpos + i - 1]

\* A write cursor kept as a physical offset instead of a logical position.
Advanced_Physical(wpos, data) == (wpos + Len(data)) % BUFFER_SIZE

\* state.position += len(chunk)
Advanced(wpos, data) == wpos + Len(data)

\* broadcaster: the "Buffering" block
WriteChunk ==
    /\ pcB = "write"
    /\ lock = "free"
    /\ Advanced(position, chunk) <= MaxPos
    /\ buffer' = BufferWrite(buffer, position, Stamped(chunk, position))
    /\ position' = Advanced(position, chunk)
    /\ byte_counter' = IF timed THEN byte_counter + Len(chunk) ELSE byte_counter
    /\ pcB' = "next_chunk"
    /\ UNCHANGED <<variant, timed, now, start_time, song_index, playlist, song_map, skip_requested,
                   current_song, is_playing, last_song, force_change, active, lock,
                   files, local_force_change, song_path, chunk, sess, resp, selected>>

\* broadcaster: the "Transicion entre canciones" block, reached when the
\* chunk loop ends: at the end of the file, on a skip, or after a failed read
Advance ==
    /\ pcB \in {"advance", "read_error"}
    /\ lock = "free"
    /\ is_playing' = FALSE
    /\ song_index' = NextIndex(song_index, Len(files))
    /\ song_path' = <<>>
    /\ chunk' = <<>>
    /\ files' = <<>>
    /\ pcB' = "pause"
    /\ UNCHANGED <<variant, pacing, buffer, position, playlist, song_map,
                   skip_requested, current_song, last_song, force_change, active, lock,
                   local_force_change, sess, resp, selected>>

\* broadcaster: time.sleep(0.3) (0.2 in app.py) and back to the loop head
Pause ==
    /\ pcB = "pause"
    /\ pcB' = LoopHead
    /\ UNCHANGED <<variant, pacing, shared, files, local_force_change, song_path,
                   chunk, sess, resp, selected>>

Producer ==
    \/ Boot \/ Start \/ Refresh \/ TakeFiles \/ Await \/ ForceChange \/ SelectTrack
    \/ OpenTrack \/ ReadChunk \/ CheckSkip \/ WriteChunk \/ Advance \/ Pause

\* ---------------------------------------------------------------- sessions
\* A session that starts at the beginning of the buffer.
InitialCursor_Zero(wpos) == 0

\* client_pos = state.position
InitialCursor(wpos) == wpos

\* A session that reads as soon as one byte is available.
ChunkAvailable_AnyByte(wpos, cpos) == wpos - cpos >= 1

\* available >= CHUNK_SIZE
ChunkAvailable(wpos, cpos) == wpos - cpos >= CHUNK_SIZE

\* A cursor kept in one place for all listeners.
StoreSession_Shared(ss, s, rec) ==
    [t \in DOMAIN ss |-> IF t = s THEN rec
                         ELSE IF ss[t].pc = "none" THEN ss[t]
                         ELSE [ss[t] EXCEPT !.client_pos = rec.client_pos]]

\* client_pos, chunk and first_chunk are locals of one call of generate():
\* a step of listener s assigns its own and no other's.
StoreSession(ss, s, rec) == [ss EXCEPT ![s] = rec]

\* GET /: a listener connects and its generator starts.  app.py takes the
\* cursor at once, without the lock; app_ngrok.py takes it after the wait for
\* state.active (InitCursor).
Connect(s) ==
    /\ pcB # "boot"
    /\ sess[s].pc = "none"
    /\ sess' = [sess EXCEPT ![s] =
                  IF variant = "app"
                  THEN [pc |-> "wait", client_pos |-> InitialCursor(position),
                        chunk |-> <<>>, first_chunk |-> TRUE, start_pos |-> position]
                  ELSE [NoSession EXCEPT !.pc = "wait"]]
    /\ UNCHANGED <<variant, pacing, shared, producer, resp, selected>>

\* while not state.active: time.sleep(0.1)
WaitActive(s) ==
    /\ sess[s].pc = "wait"
    /\ active
    /\ sess' = [sess EXCEPT ![s].pc = IF variant = "app" THEN "poll" ELSE "init"]
    /\ UNCHANGED <<variant, pacing, shared, producer, resp, selected>>

\* app_ngrok.py: with state.lock: client_pos = state.position
InitCursor(s) ==
    /\ sess[s].pc = "init"
    /\ lock = "free"
    /\ sess' = [sess EXCEPT ![s].pc = "poll",
                            ![s].client_pos = InitialCursor(position),
                            ![s].start_pos = position]
    /\ UNCHANGED <<variant, pacing, shared, producer, resp, selected>>

\* One pass of the drain loop up to its suspension: `while state.active:'
\* (the generator ends when the flag is false), the locked read, then the
\* yield of the chunk or the poll sleep.  In app.py the yield and both sleeps
\* are inside `with state.lock:', so the session is suspended with the lock
\* held; in app_ngrok.py the block ends before them.
Poll(s) ==
    /\ sess[s].pc = "poll"
    /\ IF ~active
       THEN /\ sess' = StoreSession(sess, s, NoSession)
            /\ UNCHANGED lock
       ELSE /\ lock = "free"
            /\ IF ChunkAvailable(position, sess[s].client_pos)
               THEN LET data == BufferRead(buffer, sess[s].client_pos)
                    IN  sess' = StoreSession(sess, s,
                                  [sess[s] EXCEPT
                                     !.chunk = data,
                                     !.client_pos = sess[s].client_pos + Len(data),
                                     !.pc = IF sess[s].first_chunk THEN "yield_hdr"
                                            ELSE "yield"])
               ELSE sess' = StoreSession(sess, s,
                              [sess[s] EXCEPT !.chunk = <<>>, !.pc = "sleep"])
            /\ lock' = IF variant = "app" THEN s ELSE lock
    /\ UNCHANGED <<variant, pacing, buffer, position, song_index, playlist, song_map,
                   skip_requested, current_song, is_playing, last_song, force_change,
                   active, producer, resp, selected>>

\* The session runs on from its suspension: after the ICY header of app.py's
\* first chunk comes the chunk itself; after a chunk or a poll sleep the
\* locked block ends and the loop starts over.
Resume(s) ==
    /\ sess[s].pc \in {"yield_hdr", "yield", "sleep"}
    /\ IF sess[s].pc = "yield_hdr"
       THEN /\ sess' = [sess EXCEPT ![s].pc = "yield", ![s].first_chunk = FALSE]
            /\ UNCHANGED lock
       ELSE /\ sess' = [sess EXCEPT ![s].pc = "poll", ![s].chunk = <<>>]
            /\ lock' = IF lock = s THEN "free" ELSE lock
    /\ UNCHANGED <<variant, pacing, buffer, position, song_index, playlist, song_map,
                   skip_requested, current_song, is_playing, last_song, force_change,
                   active, producer, resp, selected>>

\* The listener goes away: the transport closes the generator at the yield it
\* is suspended in, and leaving the `with' block releases a lock it holds.
Disconnect(s) ==
    /\ sess[s].pc \in {"yield_hdr", "yield"}
    /\ sess' = [sess EXCEPT ![s] = NoSession]
    /\ lock' = IF lock = s THEN "free" ELSE lock
    /\ UNCHANGED <<variant, pacing, buffer, position, song_index, playlist, song_map,
                   skip_requested, current_song, is_playing, last_song, force_change,
                   active, producer, resp, selected>>

Session == \E s \in DOMAIN sess :
    Connect(s) \/ WaitActive(s) \/ InitCursor(s) \/ Poll(s) \/ Resume(s) \/ Disconnect(s)

\* GET /status: what the handler reads, inside `with state.lock:', of the
\* broadcast state; the handler changes nothing.
StatusReport ==
    [current_song        |-> current_song,
     current_song_number |-> song_index + 1,
     is_playing          |-> is_playing,
     file_count          |-> Len(playlist)]

\* ---------------------------------------------------------------- system
SongNumbers == 0..(Len(Songs) + 1)

Command == (\E n \in SongNumbers : PlaySong(n)) \/ NextSong \/ ListSongs

Next == Producer \/ Command \/ Session

Spec == Init /\ [][Next]_vars

\* The producer alone, scheduled fairly, beside a music folder that does not
\* change once the server has started: every later scan returns the playlist
\* already loaded.
SteadyProducer == Producer /\ (pcB # "boot" => playlist' = playlist)

FairSpec == Init /\ [][SteadyProducer]_vars /\ WF_vars(SteadyProducer)

\* Time passes while the producer does not sleep: it waits for the lock, for
\* the disk, or for the processor.
Tick ==
    /\ timed
    /\ now < MaxTime
    /\ now' = now + 1
    /\ UNCHANGED <<variant, shared, producer, sess, resp, selected,
                   timed, start_time, byte_counter>>

\* The producer beside an unchanging folder, with the clock followed.
PaceNext == SteadyProducer \/ Tick

PaceSpec == InitOf(SessionIds, TRUE) /\ [][PaceNext]_vars

\* Two listeners beside the producer, with no command and a folder that does
\* not change.
ListenerPair == {"s1", "s2"}

PairNext == SteadyProducer \/ Session

PairSpec == InitWith(ListenerPair) /\ [][PairNext]_vars

\* ---------------------------------------------------------------- claims
StreamingPcs == {"open", "next_chunk", "chk_skip", "write", "advance", "read_error"}
Yielding(s) == sess[s].pc \in {"yield_hdr", "yield"}

\* C1: after any sequence of chunk writes, every logical position p below the
\* write cursor and less than BUFFER_SIZE behind it is held in slot
\* p mod BUFFER_SIZE, and a session read that covers p returns that byte.
C1_SlotHoldsLatestWrite ==
    \A p \in 0..(position - 1) :
        position - p < BUFFER_SIZE =>
            /\ buffer[p % BUFFER_SIZE] = p
            /\ \A i \in 1..CHUNK_SIZE :
                 p + i - 1 < position => BufferRead(buffer, p)[i] = p + i - 1

\* C1 witness: the buffer has wrapped and the chunk just written straddled
\* the physical end of the storage.
C1_Witness ==
    /\ pcB = "next_chunk"
    /\ position > BUFFER_SIZE
    /\ Len(chunk) >= 2
    /\ position % BUFFER_SIZE \in 1..(Len(chunk) - 1)

\* C2: a session never yields a byte from a slot that has been overwritten:
\* the chunk it yields is the bytes of the logical positions its cursor has
\* just passed over.
C2_NoOverwrittenBytes ==
    \A s \in SessionIds :
        Yielding(s) =>
            \A i \in 1..Len(sess[s].chunk) :
                sess[s].chunk[i] = sess[s].client_pos - Len(sess[s].chunk) + i - 1

\* C3: when a track starts after a successful play_song, it is the track
\* that play_song selected.
C3_SelectedTrackPlaysNext ==
    [][(pcB = "select" /\ pcB' = "open" /\ selected # -1) => song_index' = selected]_vars

\* C4: play_song with a number outside 1..len(playlist) replies with the
\* error and leaves song_index, skip_requested, force_change and last_song
\* as they were.
C4_InvalidSelectionRejected ==
    [][\A n \in SongNumbers :
          ((n < 1 \/ n > Len(playlist)) /\ PlaySong(n)) =>
              /\ resp' = Reply("play", 400, -1)
              /\ UNCHANGED <<song_index, skip_requested, force_change, last_song>>]_vars

\* C4 witness: an invalid number was rejected while a track was streaming.
C4_Witness ==
    /\ resp = Reply("play", 400, -1)
    /\ playlist # <<>>
    /\ pcB = "write"
    /\ is_playing

\* C5: the /next handler always returns: it is never left waiting for the
\* mutex while holding it.
C5_SkipToNextReturns == lock # "next"

\* C6: every byte a session yields was written at a logical position at or
\* after the write cursor the session was created at.
C6_NoByteFromBeforeCreation ==
    \A s \in SessionIds :
        Yielding(s) =>
            \A i \in 1..Len(sess[s].chunk) : sess[s].chunk[i] >= sess[s].start_pos

\* C6 witness: a session created after the first bytes were written yields a
\* chunk read from slots that have been written more than once.
C6_Witness ==
    \E s \in SessionIds :
        /\ Yielding(s)
        /\ sess[s].start_pos > 0
        /\ \E i \in 1..Len(sess[s].chunk) : sess[s].chunk[i] >= BUFFER_SIZE

\* C7: state.position never decreases, and the only step that changes it is
\* the producer's chunk write, which adds the length of the chunk.
C7_WriteCursorMonotonic ==
    [][/\ position' >= position
       /\ position' # position =>
            /\ pcB = "write" /\ pcB' = "next_chunk"
            /\ position' = position + Len(chunk)]_vars

\* C7 witness: a short chunk has been written after the buffer filled once.
C7_Witness ==
    /\ pcB = "next_chunk"
    /\ Len(chunk) = 1
    /\ position > BUFFER_SIZE

\* C8 as stated: whenever the shared playlist is empty the producer is not
\* streaming and is_playing is false.
C8_EmptyPlaylistIdle ==
    playlist = <<>> => (~is_playing /\ pcB \notin StreamingPcs)

\* C8 amended: a pass of the producer that finds the playlist empty goes to
\* AwaitingPlaylist, where is_playing is false and no byte is written; and
\* while the shared playlist is empty every play_song and /next is rejected
\* with the error and changes nothing.
C8_AwaitingPlaylist ==
    [][/\ (pcB = "files" /\ playlist = <<>> /\ pcB' # pcB) => pcB' = "await"
       /\ pcB = "await" => (~is_playing /\ files = <<>>)
       /\ (pcB = "await" /\ pcB' = "await") =>
            (~is_playing' /\ position' = position /\ buffer' = buffer)
       /\ playlist = <<>> =>
            /\ \A n \in SongNumbers :
                 PlaySong(n) =>
                     /\ resp' = Reply("play", 400, -1)
                     /\ UNCHANGED <<shared, producer, sess, selected>>
            /\ NextSong =>
                     /\ resp' = Reply("next", 400, -1)
                     /\ UNCHANGED <<shared, producer, sess, selected>>]_vars

\* C8 witness: the producer awaits a playlist after it has streamed bytes,
\* and a /play was rejected.
C8_Witness ==
    /\ pcB = "await"
    /\ playlist = <<>>
    /\ position > 0
    /\ resp = Reply("play", 400, -1)

\* C9: no session holds the mutex while it is suspended in its poll sleep or
\* at a yield.
C9_NoLockWhileSuspended ==
    \A s \in SessionIds :
        sess[s].pc \in {"sleep", "yield_hdr", "yield"} => lock # s

\* C10: while the engine is active the producer thread never ends.
C10_ProducerNeverEnds == active => pcB \notin {"crashed", "stopped"}

\* C10, as a property of the fairly scheduled producer: with the engine active
\* and the playlist non-empty, the producer is streaming a track again and
\* again.
C10_StreamsForever ==
    (<>[](active /\ playlist # <<>>)) => []<>(pcB \in StreamingPcs)

\* C11: a step of a session (its creation, a poll, a chunk read, its
\* disconnection) changes nothing but that session's own cursor: the write
\* position, the buffer, every field of the broadcast state, the producer and
\* every other session's cursor are as before.  The step that ends a session
\* leaves the mutex free if that session held it and untouched otherwise, so
\* that the producer and the remaining sessions can go on.
C11_SessionStepsAreLocal ==
    [][sess' # sess =>
         /\ UNCHANGED <<buffer, position, song_index, playlist, song_map,
                        skip_requested, current_song, is_playing, last_song,
                        force_change, active, producer>>
         /\ \E s \in DOMAIN sess :
               /\ \A t \in DOMAIN sess \ {s} : sess'[t] = sess[t]
               /\ lock' \in {lock, s, "free"}
               /\ (sess'[s].pc = "none") =>
                     lock' = (IF lock = s THEN "free" ELSE lock)]_vars

\* One listener has been handed a chunk while the other, connected at another
\* moment, polls at a different cursor and the producer is about to write.
C11_Witness ==
    /\ sess["s1"].pc = "yield"
    /\ sess["s2"].pc = "poll"
    /\ sess["s2"].client_pos > sess["s1"].client_pos
    /\ pcB = "write"

\* C12: a successful selection of track n (1 <= n <= length of the playlist)
\* is one step that, under the mutex, sets song_index to n - 1, sets
\* skip_requested and force_change, empties last_song and replies with index
\* n - 1; and no step raises force_change with any of the other three
\* updates still to come.
C12_SelectIsOneStep ==
    [][/\ \A n \in 1..Len(playlist) :
            PlaySong(n) =>
              /\ lock = "free" /\ lock' = "free"
              /\ song_index' = n - 1
              /\ skip_requested' /\ force_change'
              /\ last_song' = ""
              /\ resp' = [op |-> "play", status |-> 200, index |-> n - 1]
       /\ (~force_change /\ force_change') =>
              /\ skip_requested' /\ last_song' = ""
              /\ resp'.op = "play" /\ resp'.status = 200
              /\ song_index' = resp'.index]_vars

\* Track 2 has just been selected while track 1 was being written.
C12_Witness ==
    /\ resp = [op |-> "play", status |-> 200, index |-> 1]
    /\ song_index = 1 /\ skip_requested /\ force_change /\ last_song = ""
    /\ pcB = "write" /\ current_song = "a.mp3" /\ is_playing

\* C13: whenever the producer indexes the playlist to select a track, the
\* index it uses is within the playlist it indexes, 0 <= index < length (a
\* refresh that shrank the playlist has reset it to 0 before), so the
\* selection never fails on an index out of range.
C13_IndexWithinPlaylist ==
    [][(pcB = "select" /\ pcB' # "select") =>
          /\ 0 <= SelectIndex /\ SelectIndex < Len(files)
          /\ pcB' # "crashed"]_vars

\* C14: after every refresh of the playlist, song_index is what it was only
\* if the path that was at song_index before the refresh is at song_index in
\* the new playlist too; otherwise song_index is 0.
C14_RefreshKeepsOrResetsIndex ==
    [][(Boot \/ Refresh \/ ListSongs) =>
          song_index' = (IF /\ ValidIndex(song_index, playlist)
                            /\ ValidIndex(song_index, playlist')
                            /\ playlist'[song_index + 1] = playlist[song_index + 1]
                         THEN song_index ELSE 0)]_vars

\* C15: while a track streams, a skip_requested the producer finds set at a
\* chunk boundary is cleared there and ends the track: the chunk in hand is
\* not written and the producer goes to the transition with the buffer as it
\* was, and from there on to the pause without a write.  Every chunk reaches
\* the write block only through a test that found skip_requested clear after
\* the previous write, so a request set while the track streams lets at most
\* the one chunk already past its test be written.
C15_SkipEndsTrackWithinOneChunk ==
    [][/\ (pcB = "chk_skip" /\ skip_requested /\ pcB' # pcB) =>
             /\ ~skip_requested' /\ pcB' = "advance"
             /\ position' = position /\ buffer' = buffer
       /\ (pcB = "advance" /\ pcB' # pcB) =>
             /\ pcB' = "pause" /\ position' = position /\ buffer' = buffer
       /\ (pcB' = "write" /\ pcB # "write") =>
             pcB = "chk_skip" /\ ~skip_requested
       /\ (pcB = "write" /\ pcB' # "write") => pcB' = "next_chunk"
       /\ (pcB = "next_chunk" /\ pcB' # pcB) =>
             pcB' \in {"chk_skip", "advance", "read_error", "stopped"}
       /\ (skip_requested /\ ~skip_requested') =>
             pcB \in {"chk_skip", "select"}]_vars

\* A selection arrived while a chunk of track 1 waited to be written; that
\* chunk was written, the next one was read, and the test before its write
\* found the request: the flag is clear, the chunk in hand is unwritten.
C15_Witness ==
    /\ pcB = "advance" /\ chunk # <<>> /\ ~skip_requested
    /\ force_change /\ position >= CHUNK_SIZE
    /\ resp.op = "play" /\ resp.status = 200

\* C16: with no command and an unchanged playlist of n >= 2 tracks with
\* distinct names, the tracks stream in the cyclic order of the playlist:
\* when the track at index i ends, is_playing becomes false and song_index
\* becomes (i + 1) mod n; nothing moves the index before the next track
\* starts; and the track that starts is the one at song_index, which is the
\* successor in the playlist of the track played before it (named by
\* last_song): none is skipped, none repeated.
C16_CyclicOrder ==
    [][Len(playlist) >= 2 =>
         /\ (pcB \in {"advance", "read_error"} /\ pcB' # pcB) =>
               /\ ~is_playing'
               /\ song_index' = (song_index + 1) % Len(playlist)
         /\ (pcB \in {"pause", "update", "files", "force", "select"}) =>
               song_index' = song_index
         /\ (pcB = "select" /\ pcB' # pcB) =>
               /\ pcB' = "open" /\ is_playing'
               /\ current_song' = Basename(playlist[song_index + 1])
               /\ current_song' # last_song
               /\ last_song # "" =>
                    \E i \in 1..Len(playlist) :
                       /\ Basename(playlist[i]) = last_song
                       /\ song_index = i % Len(playlist)]_vars

\* The first track starts again after the playlist has been gone through
\* once: bytes are in the buffer and the index has wrapped to 0.
C16_Witness ==
    /\ pcB = "open" /\ song_index = 0 /\ is_playing
    /\ current_song = "a.mp3" /\ Len(playlist) = 2 /\ position > 0

\* C17: every item a session yields is exactly CHUNK_SIZE bytes, the bytes
\* of the logical positions [client_pos, client_pos + CHUNK_SIZE) of the
\* stream, after which client_pos has advanced by CHUNK_SIZE; nothing is
\* yielded while fewer than CHUNK_SIZE bytes lie between the cursor and the
\* write position, so that consecutive yields are contiguous, with no gap,
\* no duplicate and no inserted byte.
C17_YieldsWholeContiguousChunks ==
    [][\A s \in DOMAIN sess :
          (sess[s].pc = "poll" /\ Yielding(s)') =>
             /\ position - sess[s].client_pos >= CHUNK_SIZE
             /\ Len(sess'[s].chunk) = CHUNK_SIZE
             /\ sess'[s].client_pos = sess[s].client_pos + CHUNK_SIZE
             /\ \A i \in 1..CHUNK_SIZE :
                   sess'[s].chunk[i] = sess[s].client_pos + i - 1]_vars

\* C18 is about the states in which state.active is false again after the
\* producer has set it; nothing in the program assigns False to it after
\* RadioState.__init__, so no such state is reachable: once the producer is
\* past its first assignment the flag is true for good.
C18_ActiveNeverCleared ==
    /\ pcB \notin {"boot", "start"} => active
    /\ pcB # "stopped"
    /\ \A s \in DOMAIN sess : sess[s].pc \notin {"none", "wait"} => active

\* C19 (as claimed): a track whose source cannot be opened or fails while it
\* is read has nothing in the buffer: when the read has failed, no chunk of
\* the track has been written (chunk is the last one the track wrote) and the
\* bytes below the write position are not the track's.
C19_NoBytesOfFailedTrack ==
    pcB = "read_error" =>
        /\ chunk = <<>>
        /\ \A i \in 1..Len(chunk) :
              buffer[(position - i) % BUFFER_SIZE] # position - i

\* C19 (amended): a failed open or read contributes no part of the chunk
\* being read and does not end the producer: the step in which the read
\* fails leaves buffer and position as they were, and the next step of the
\* producer clears is_playing and moves song_index to the next track, again
\* without a write.  Every write puts one whole chunk, as read, at the write
\* position.
C19_FailedReadWritesNothing ==
    [][/\ (pcB = "next_chunk" /\ pcB' # pcB) =>
             /\ pcB' # "crashed"
             /\ position' = position /\ buffer' = buffer
       /\ (pcB = "read_error" /\ pcB' # pcB) =>
             /\ pcB' = "pause" /\ ~is_playing'
             /\ song_index' = (song_index + 1) % Len(files)
             /\ position' = position /\ buffer' = buffer
       /\ position' # position =>
             /\ pcB = "write" /\ chunk # <<>>
             /\ position' = position + Len(chunk)
             /\ \A i \in 1..Len(chunk) :
                   buffer'[(position + i - 1) % BUFFER_SIZE] = position + i - 1]_vars

\* The read of a track fails after one whole chunk of it was written: the
\* chunk is in the buffer, below the write position.
C19_Witness ==
    /\ pcB = "read_error"
    /\ Len(chunk) = CHUNK_SIZE /\ position >= CHUNK_SIZE
    /\ \A i \in 1..Len(chunk) :
          buffer[(position - i) % BUFFER_SIZE] = position - i

StatusAgrees ==
    /\ StatusReport.current_song_number \in 1..Len(playlist)
    /\ StatusReport.current_song =
          Basename(playlist[StatusReport.current_song_number])

AtChunkBoundary == pcB \in {"next_chunk", "chk_skip", "write"}

\* C21: pacing corrects its own drift: at every chunk boundary of a track
\* the bytes written since the track started exceed the byte rate times the
\* time elapsed since then by no more than one chunk, whatever delays came
\* earlier in the track (in ticks: byte_counter / BYTES_PER_SECOND is at
\* most elapsed + CHUNK_SIZE / BYTES_PER_SECOND).
C21_BytesWithinOneChunkOfRate ==
    (timed /\ AtChunkBoundary) =>
        byte_counter * TicksPerSecond <=
            BYTES_PER_SECOND * (now - start_time) + CHUNK_SIZE * TicksPerSecond

\* C22: in every reachable state every session's cursor is at most the write
\* position and lies a whole number (zero or more) of chunks above the
\* cursor the session started with; and no step of a session that goes on
\* moves its cursor backwards.
C22_CursorAlignedBehindWriter ==
    [][\A s \in DOMAIN sess :
          /\ sess[s].client_pos <= position
          /\ sess'[s].client_pos <= position'
          /\ sess'[s].client_pos >= sess'[s].start_pos
          /\ (sess'[s].client_pos - sess'[s].start_pos) % CHUNK_SIZE = 0
          /\ (sess[s].pc \notin {"none", "wait", "init"} /\ sess'[s].pc # "none") =>
                /\ sess'[s].client_pos >= sess[s].client_pos
                /\ sess'[s].start_pos = sess[s].start_pos]_vars

\* A session that started at a position that is no multiple of CHUNK_SIZE
\* has read a chunk and is still behind the writer.
C22_Witness ==
    \E s \in DOMAIN sess :
        /\ sess[s].pc = "yield"
        /\ sess[s].start_pos % CHUNK_SIZE # 0
        /\ sess[s].client_pos = sess[s].start_pos + CHUNK_SIZE
        /\ sess[s].client_pos < position

====
